---- MODULE Spec2Model ----
(***************************************************************************)
(* ckanext-transmute: the transmute action and the traversal that applies  *)
(* a parsed schema to a data dict (logic/action/get.py), with the built-in *)
(* transmutators (transmutators.py).                                       *)
(*                                                                         *)
(* Python objects are kept on a heap: a dict is an object with an id, a    *)
(* list value holds the ids of its dicts, so that two names bound to the   *)
(* same dict or list see each other's in-place changes.  A dict is an      *)
(* insertion-ordered sequence of <key, value> items, as in Python.         *)
(***************************************************************************)
EXTENDS Integers, Sequences, FiniteSets, TLC

VARIABLES heap, heap0, types, data, pc, stack, err, log, visits, result

vars == <<heap, heap0, types, data, pc, stack, err, log, visits, result>>

----------------------------------------------------------------------------
(* Bounds of the inputs.                                                   *)

MaxItems == 2

MaxKeys == 2

----------------------------------------------------------------------------
(* Python values.                                                          *)

NoneV == [kind |-> "none", s |-> "", items |-> <<>>]

StrV(x) == [kind |-> "str", s |-> x, items |-> <<>>]

IntV(x) == [kind |-> "int", s |-> x, items |-> <<>>]

ListV(ids) == [kind |-> "list", s |-> "", items |-> ids]

Truthy(v) ==
  CASE v.kind = "str" -> v.s # ""
    [] v.kind = "int" -> v.s # "0"
    [] v.kind = "list" -> v.items # <<>>
    [] OTHER -> FALSE

Lower(s) ==
  CASE s = "V" -> "v"
    [] s = "OLD" -> "old"
    [] s = "A" -> "a"
    [] OTHER -> s

Upper(s) ==
  CASE s = "v" -> "V"
    [] s = "old" -> "OLD"
    [] s = "a" -> "A"
    [] OTHER -> s

----------------------------------------------------------------------------
(* dict operations on an insertion-ordered sequence of items.              *)

Has(d, k) == \E i \in 1..Len(d) : d[i].k = k

IndexOf(d, k) == CHOOSE i \in 1..Len(d) : d[i].k = k

Get(d, k) == d[IndexOf(d, k)].v

Put(d, k, v) ==
  IF Has(d, k)
  THEN [d EXCEPT ![IndexOf(d, k)] = [k |-> k, v |-> v]]
  ELSE Append(d, [k |-> k, v |-> v])

Pop(d, k) ==
  LET i == IndexOf(d, k)
  IN  SubSeq(d, 1, i - 1) \o SubSeq(d, i + 1, Len(d))

SetItem(h, id, k, v) == [h EXCEPT ![id] = Put(h[id], k, v)]

PopItem(h, id, k) == [h EXCEPT ![id] = Pop(h[id], k)]

----------------------------------------------------------------------------
(* SchemaField and SchemaParser, as the traversal uses them.               *)

NoField ==
  [remove |-> FALSE, default |-> NoneV, default_from |-> "", replace_from |-> "",
   value |-> NoneV, map_to |-> "", type |-> "", multiple |-> FALSE,
   validators |-> <<>>]

is_multiple(field) == field.multiple

get_default_from(field) == field.default_from

get_replace_from(field) == field.replace_from

SchemaOf(tps, root) == IF root \in DOMAIN tps THEN tps[root] ELSE <<>>

HasSchema(tps, root) == root \in DOMAIN tps

----------------------------------------------------------------------------
(* Transmutators: each takes a Field and returns a Field or raises.        *)

Field(field_name, value, type) ==
  [field_name |-> field_name, value |-> value, type |-> type]

Returned(field) == [exc |-> "", error |-> "", field |-> field]

Raised(exc, error, field) == [exc |-> exc, error |-> error, field |-> field]

HostValidator(name, value) ==
  CASE name = "isodate" ->
         IF value.kind = "str" /\ value.s = "2020-01-01"
         THEN [exc |-> "", error |-> "", value |-> StrV("2020-01-01T00:00:00")]
         ELSE IF value.kind = "str" /\ value.s = ""
         THEN [exc |-> "", error |-> "", value |-> NoneV]
         ELSE [exc |-> "Invalid", error |-> "Date format incorrect", value |-> value]
    [] OTHER ->
         IF value.kind = "str" /\ value.s \in {"v", "old", "a"}
         THEN [exc |-> "", error |-> "", value |-> value]
         ELSE [exc |-> "Invalid", error |-> "Must be a valid name", value |-> value]

name_validator(field) ==
  LET r == HostValidator("name_validator", field.value)
  IN  IF r.exc = "" THEN Returned([field EXCEPT !.value = r.value])
      ELSE Raised(r.exc, r.error, field)

to_lowercase(field) ==
  IF field.value.kind = "str"
  THEN Returned([field EXCEPT !.value = StrV(Lower(field.value.s))])
  ELSE Raised("AttributeError", "object has no attribute 'lower'", field)

to_uppercase(field) ==
  IF field.value.kind = "str"
  THEN Returned([field EXCEPT !.value = StrV(Upper(field.value.s))])
  ELSE Raised("AttributeError", "object has no attribute 'upper'", field)

string_only(field) ==
  IF field.value.kind # "str"
  THEN Raised("Invalid", "Must be a string value", field)
  ELSE Returned(field)

isodate(field) ==
  LET r == HostValidator("isodate", field.value)
  IN  IF r.exc = "" THEN Returned([field EXCEPT !.value = r.value])
      ELSE Raised(r.exc, r.error, field)

get_validator(name) ==
  [tsm_name_validator |-> "name_validator", tsm_to_lowercase |-> "to_lowercase",
   tsm_to_uppercase |-> "to_uppercase", tsm_string_only |-> "string_only",
   tsm_isodate |-> "isodate"][name]

CallTransmutator(name, field) ==
  CASE get_validator(name) = "name_validator" -> name_validator(field)
    [] get_validator(name) = "to_lowercase" -> to_lowercase(field)
    [] get_validator(name) = "to_uppercase" -> to_uppercase(field)
    [] get_validator(name) = "string_only" -> string_only(field)
    [] get_validator(name) = "isodate" -> isodate(field)

----------------------------------------------------------------------------
(* Outcomes of a call: exc = "" is a normal return.  payload is the        *)
(* error_dict of a ValidationError, an ordered sequence of <key, messages>;*)
(* origin names the place that raised.                                     *)

NoErr == [exc |-> "", payload |-> <<>>, origin |-> "", type |-> "", field_name |-> ""]

ValidationError(key, messages, type, field_name) ==
  [exc |-> "ValidationError", payload |-> <<[k |-> key, v |-> messages]>>,
   origin |-> "transmutator", type |-> type, field_name |-> field_name]

(* The try block of _apply_validators: only df.Invalid is caught.          *)
Except(r) ==
  IF r.exc = "Invalid"
  THEN ValidationError(r.field.type \o ":" \o r.field.field_name, <<r.error>>,
                       r.field.type, r.field.field_name)
  ELSE [exc |-> r.exc, payload |-> <<>>, origin |-> "transmutator",
        type |-> r.field.type, field_name |-> r.field.field_name]

RECURSIVE ValidatorLoop(_, _, _)
ValidatorLoop(field, validators, i) ==
  IF i > Len(validators) THEN Returned(field)
  ELSE LET r == CallTransmutator(validators[i], field)
       IN  IF r.exc = "" THEN ValidatorLoop(r.field, validators, i + 1) ELSE r

apply_validators(field, validators) ==
  LET r == ValidatorLoop(field, validators, 1)
  IN  IF r.exc = "" THEN [err |-> NoErr, value |-> r.field.value]
      ELSE [err |-> Except(r), value |-> field.value]


----------------------------------------------------------------------------
(* The traversal.  S is the state a call works on: the heap, the outcome   *)
(* so far, and two records of what happened: log has one entry per call of *)
(* _apply_validators, visits one entry per field whose value-sourcing ran. *)

KeyError(type, field_name) ==
  [exc |-> "KeyError", payload |-> <<>>, origin |-> "lookup",
   type |-> type, field_name |-> field_name]

TraversalError(exc, type, field_name) ==
  [exc |-> exc, payload |-> <<>>, origin |-> "traversal",
   type |-> type, field_name |-> field_name]

HasField(fields, field_name) == \E i \in 1..Len(fields) : fields[i].k = field_name

GetField(fields, field_name) ==
  fields[CHOOSE i \in 1..Len(fields) : fields[i].k = field_name].f

(* data[field_name] = value = v *)
Assign(fr, id, field_name, v, step) ==
  [fr EXCEPT !.heap = SetItem(@, id, field_name, v),
             !.value = v,
             !.ran = Append(@, [step |-> step, value |-> v])]

(* data[field_name] = value = data[source], a KeyError when source is absent *)
AssignFrom(fr, id, root, field_name, source, step) ==
  IF Has(fr.heap[id], source)
  THEN Assign(fr, id, field_name, Get(fr.heap[id], source), step)
  ELSE [fr EXCEPT !.err = KeyError(root, field_name)]

(* the default is stored but the local `value` is not rebound *)
StepDefault_StaleValue(fr, id, root, field_name, field) ==
  IF fr.err.exc = "" /\ Truthy(field.default) /\ ~Truthy(fr.value)
  THEN [Assign(fr, id, field_name, field.default, "default") EXCEPT !.value = fr.value]
  ELSE fr

StepDefault(fr, id, root, field_name, field) ==
  IF fr.err.exc = "" /\ Truthy(field.default) /\ ~Truthy(fr.value)
  THEN Assign(fr, id, field_name, field.default, "default")
  ELSE fr

StepDefaultFrom(fr, id, root, field_name, field) ==
  IF fr.err.exc = "" /\ field.default_from # "" /\ ~Truthy(fr.value)
  THEN AssignFrom(fr, id, root, field_name, get_default_from(field), "default_from")
  ELSE fr

StepReplaceFrom(fr, id, root, field_name, field) ==
  IF fr.err.exc = "" /\ field.replace_from # ""
  THEN AssignFrom(fr, id, root, field_name, get_replace_from(field), "replace_from")
  ELSE fr

StepValue(fr, id, root, field_name, field) ==
  IF fr.err.exc = "" /\ Truthy(field.value)
  THEN Assign(fr, id, field_name, field.value, "value")
  ELSE fr

(* lines 85-95 *)
SourceValue(fr, id, root, field_name, field) ==
  StepValue(
    StepReplaceFrom(
      StepDefaultFrom(
        StepDefault(fr, id, root, field_name, field),
        id, root, field_name, field),
      id, root, field_name, field),
    id, root, field_name, field)

(* data[field_name] = _apply_validators(Field(field_name, value, root), ...) *)
Validate(S, id, root, field_name, value, field, pass) ==
  LET r == apply_validators(Field(field_name, value, root), field.validators)
      entry == [obj |-> id, type |-> root, field_name |-> field_name,
                value |-> value, pass |-> pass,
                raised |-> r.err.exc # "", out |-> r.value]
  IN  IF r.err.exc = ""
      THEN [S EXCEPT !.heap = SetItem(@, id, field_name, r.value),
                     !.log = Append(@, entry)]
      ELSE [S EXCEPT !.err = r.err, !.log = Append(@, entry)]

(* data[field.map_to] = data.pop(field_name) *)
MapTo(S, id, field_name, field) ==
  IF S.err.exc = "" /\ field.map_to # ""
  THEN [S EXCEPT !.heap =
          SetItem(PopItem(@, id, field_name), id, field.map_to,
                  Get(S.heap[id], field_name))]
  ELSE S

(* lines 76-95 of one turn of the loop of mutate_old_fields: the field's   *)
(* value-sourcing, on the local `value` and on data[field_name].           *)
Sourcing(S, id, root, field_name, value) ==
  SourceValue([err |-> NoErr, heap |-> S.heap, value |-> value, ran |-> <<>>],
              id, root, field_name, GetField(SchemaOf(types, root), field_name))

Sourced(S, id, root, field_name, value) ==
  LET fr == Sourcing(S, id, root, field_name, value)
  IN  [S EXCEPT !.heap = fr.heap, !.err = fr.err,
                !.visits = Append(@, [obj |-> id, type |-> root,
                                      field_name |-> field_name,
                                      value0 |-> value, ran |-> fr.ran,
                                      value |-> fr.value,
                                      ok |-> fr.err.exc = ""])]

(* One turn of the loop of mutate_old_fields for a field that is not       *)
(* multiple, lines 76-106.                                                 *)
mutate_old_field(S, id, root, field_name, value) ==
  LET fields == SchemaOf(types, root)
      field == GetField(fields, field_name)
      S1 == Sourced(S, id, root, field_name, value)
  IN  IF ~HasField(fields, field_name) THEN S
      ELSE IF field.remove THEN [S EXCEPT !.heap = PopItem(@, id, field_name)]
      ELSE IF S1.err.exc # "" THEN S1
      ELSE MapTo(Validate(S1, id, root, field_name,
                          Sourcing(S, id, root, field_name, value).value, field, 1),
                 id, field_name, field)

(* `for nested_field in value` on a value that is no list: a str yields    *)
(* its characters, which _transmute_data cannot copy; None and int are not *)
(* iterable.                                                               *)
IterateScalar(S, root, field_name, value, field) ==
  IF value.kind = "str"
  THEN IF value.s # "" /\ HasSchema(types, field.type)
       THEN [S EXCEPT !.err = TraversalError("AttributeError", root, field_name)]
       ELSE S
  ELSE [S EXCEPT !.err = TraversalError("TypeError", root, field_name)]

(* data[field_name] = data[source] in create_new_fields *)
CreateFrom(S, id, root, field_name, source) ==
  IF S.err.exc # "" THEN S
  ELSE IF Has(S.heap[id], source)
  THEN [S EXCEPT !.heap = SetItem(@, id, field_name, Get(S.heap[id], source))]
  ELSE [S EXCEPT !.err = KeyError(root, field_name)]

(* lines 126-133 *)
CreateValue(S, id, root, field_name, field) ==
  LET S1 == IF field.default_from # ""
            THEN CreateFrom(S, id, root, field_name, get_default_from(field))
            ELSE S
      S2 == IF field.replace_from # ""
            THEN CreateFrom(S1, id, root, field_name, get_replace_from(field))
            ELSE S1
  IN  IF S2.err.exc = "" /\ Truthy(field.value)
      THEN [S2 EXCEPT !.heap = SetItem(@, id, field_name, field.value)]
      ELSE S2

(* One turn of the loop of create_new_fields, lines 123-140. *)
create_new_field(S, id, root, field_name, field) ==
  LET S1 == CreateValue(S, id, root, field_name, field)
  IN  IF Has(S.heap[id], field_name) THEN S
      ELSE IF S1.err.exc # "" \/ ~Has(S1.heap[id], field_name) THEN S1
      ELSE Validate(S1, id, root, field_name, Get(S1.heap[id], field_name), field, 2)

----------------------------------------------------------------------------
(* The transmute action as a state machine.  stack holds the activations   *)
(* of _transmute_data, the innermost last; each is at a turn of one of its *)
(* two loops, or inside the loop over the elements of a multiple field.    *)

CallerData == 1

Activation(id, root) ==
  [obj |-> id, root |-> root, phase |-> "mutate_old_fields",
   snapshot |-> heap[id], idx |-> 1, nested |-> FALSE, elements |-> <<>>, e |-> 1]

(* _transmute_data(data, definition, root), lines 48-53 *)
Enter(stk, id, root) ==
  IF HasSchema(types, root) THEN Append(stk, Activation(id, root)) ELSE stk

Top == stack[Len(stack)]

SetTop(frame) == [stack EXCEPT ![Len(stack)] = frame]

Now == [err |-> err, heap |-> heap, log |-> log, visits |-> visits]

Store(S) ==
  /\ heap' = S.heap
  /\ log' = S.log
  /\ visits' = S.visits
  /\ err' = S.err

(* tk.check_access refuses the caller *)
Denied ==
  /\ pc = "call"
  /\ pc' = "failed"
  /\ err' = [exc |-> "NotAuthorized", payload |-> <<>>, origin |-> "check_access",
             type |-> "", field_name |-> ""]
  /\ UNCHANGED <<heap, heap0, types, data, stack, log, visits, result>>

(* transmute, lines 29-33 *)
Call ==
  /\ pc = "call"
  /\ data' = CallerData
  /\ stack' = Enter(<<>>, CallerData, "Dataset")
  /\ pc' = IF HasSchema(types, "Dataset") THEN "run" ELSE "return"
  /\ UNCHANGED <<heap, heap0, types, err, log, visits, result>>

(* One turn of the loop of mutate_old_fields; for a multiple field, up to  *)
(* the start of the loop over its elements.                                *)
MutateOldField ==
  /\ pc = "run"
  /\ Top.phase = "mutate_old_fields"
  /\ ~Top.nested
  /\ Top.idx <= Len(Top.snapshot)
  /\ LET field_name == Top.snapshot[Top.idx].k
         value == Top.snapshot[Top.idx].v
         fields == SchemaOf(types, Top.root)
         field == GetField(fields, field_name)
         multiple == HasField(fields, field_name) /\ ~field.remove /\ is_multiple(field)
         S1 == Sourced(Now, Top.obj, Top.root, field_name, value)
         S == IF ~multiple
              THEN mutate_old_field(Now, Top.obj, Top.root, field_name, value)
              ELSE IF S1.err.exc # "" \/ S1.visits[Len(S1.visits)].value.kind = "list"
              THEN S1
              ELSE MapTo(IterateScalar(S1, Top.root, field_name,
                                       S1.visits[Len(S1.visits)].value, field),
                         Top.obj, field_name, field)
         iterate == multiple /\ S.err.exc = ""
                      /\ S.visits[Len(S.visits)].value.kind = "list"
     IN  /\ Store(S)
         /\ pc' = IF S.err.exc # "" THEN "failed" ELSE pc
         /\ stack' = IF iterate
                     THEN SetTop([Top EXCEPT !.nested = TRUE, !.e = 1,
                                   !.elements = S.visits[Len(S.visits)].value.items])
                     ELSE SetTop([Top EXCEPT !.idx = @ + 1])
  /\ UNCHANGED <<heap0, types, data, result>>

(* the loop moves on without the call *)
NestedCall_SkipsElement ==
  /\ pc = "run"
  /\ Top.nested
  /\ Top.e <= Len(Top.elements)
  /\ stack' = SetTop([Top EXCEPT !.e = @ + 1])
  /\ UNCHANGED <<heap, heap0, types, data, pc, err, log, visits, result>>

(* for nested_field in value: _transmute_data(nested_field, definition, field.type) *)
NestedCall ==
  /\ pc = "run"
  /\ Top.nested
  /\ Top.e <= Len(Top.elements)
  /\ LET field == GetField(SchemaOf(types, Top.root), Top.snapshot[Top.idx].k)
     IN  stack' = Enter(SetTop([Top EXCEPT !.e = @ + 1]), Top.elements[Top.e], field.type)
  /\ UNCHANGED <<heap, heap0, types, data, pc, err, log, visits, result>>

(* the loop over the elements is over: lines 105-106 for the multiple field *)
NestedEnd ==
  /\ pc = "run"
  /\ Top.nested
  /\ Top.e > Len(Top.elements)
  /\ LET field_name == Top.snapshot[Top.idx].k
         field == GetField(SchemaOf(types, Top.root), field_name)
     IN  Store(MapTo(Now, Top.obj, field_name, field))
  /\ stack' = SetTop([Top EXCEPT !.nested = FALSE, !.idx = @ + 1])
  /\ UNCHANGED <<heap0, types, data, pc, result>>

(* mutate_old_fields returns and create_new_fields starts its loop *)
StartCreate ==
  /\ pc = "run"
  /\ Top.phase = "mutate_old_fields"
  /\ ~Top.nested
  /\ Top.idx > Len(Top.snapshot)
  /\ stack' = SetTop([Top EXCEPT !.phase = "create_new_fields", !.idx = 1])
  /\ UNCHANGED <<heap, heap0, types, data, pc, err, log, visits, result>>

CreateNewField ==
  /\ pc = "run"
  /\ Top.phase = "create_new_fields"
  /\ Top.idx <= Len(SchemaOf(types, Top.root))
  /\ LET fields == SchemaOf(types, Top.root)
         S == create_new_field(Now, Top.obj, Top.root, fields[Top.idx].k, fields[Top.idx].f)
     IN  /\ Store(S)
         /\ pc' = IF S.err.exc # "" THEN "failed" ELSE pc
  /\ stack' = SetTop([Top EXCEPT !.idx = @ + 1])
  /\ UNCHANGED <<heap0, types, data, result>>

(* create_new_fields and _transmute_data return to their caller *)
EndCreate ==
  /\ pc = "run"
  /\ Top.phase = "create_new_fields"
  /\ Top.idx > Len(SchemaOf(types, Top.root))
  /\ stack' = SubSeq(stack, 1, Len(stack) - 1)
  /\ pc' = IF Len(stack) = 1 THEN "return" ELSE pc
  /\ UNCHANGED <<heap, heap0, types, data, err, log, visits, result>>

(* return data *)
Return ==
  /\ pc = "return"
  /\ pc' = "done"
  /\ result' = data
  /\ UNCHANGED <<heap, heap0, types, data, stack, err, log, visits>>

Next ==
  \/ Denied
  \/ Call
  \/ MutateOldField
  \/ NestedCall
  \/ NestedEnd
  \/ StartCreate
  \/ CreateNewField
  \/ EndCreate
  \/ Return

----------------------------------------------------------------------------
(* Inputs.  A request is a heap holding the caller's data dict (object 1)  *)
(* and the dicts of its list values, and a parsed schema.                  *)

Start(requests) ==
  /\ \E rq \in requests :
       /\ heap = rq.heap
       /\ heap0 = rq.heap
       /\ types = rq.types
  /\ data = 0
  /\ pc = "call"
  /\ stack = <<>>
  /\ err = NoErr
  /\ log = <<>>
  /\ visits = <<>>
  /\ result = 0

(* Insertion-ordered dicts of at most n items with distinct keys. *)
Dicts(keys, vals, n) ==
  { d \in UNION { [1..m -> [k : keys, v : vals]] : m \in 0..n } :
      \A i, j \in 1..Len(d) : i # j => d[i].k # d[j].k }

(* The "fields" of one schema type, in declaration order. *)
Fields(names, descriptors, n) ==
  { d \in UNION { [1..m -> [k : names, f : descriptors]] : m \in 0..n } :
      \A i, j \in 1..Len(d) : i # j => d[i].k # d[j].k }

Dataset(fields) == [t \in {"Dataset"} |-> fields]

Flat(records, schemas) ==
  { [heap |-> <<r>>, types |-> Dataset(s)] : r \in records, s \in schemas }

Scalars == {NoneV, StrV(""), StrV("v")}

Plain(removes, defaults, default_froms, replace_froms, values, map_tos, chains) ==
  [remove : removes, default : defaults, default_from : default_froms,
   replace_from : replace_froms, value : values, map_to : map_tos,
   type : {""}, multiple : {FALSE}, validators : chains]

(* default and default_from on one field x, beside siblings a and k *)
DefaultRequests ==
  Flat(Dicts({"x", "a", "k"}, Scalars, MaxKeys),
       Fields({"x"},
              Plain({FALSE}, {NoneV, StrV(""), StrV("A")}, {"", "a"}, {""}, {NoneV},
                    {""}, {<<>>}),
              1))

(* A multiple field r of the nested type Resource, beside a sibling list s *)
Elements == Dicts({"x"}, {StrV("V"), IntV("5")}, 1)

Sibling == <<[k |-> "x", v |-> StrV("V")]>>

Range(n) == [i \in 1..n |-> i + 1]

NestedRecords(n) ==
  { d \in Dicts({"r", "s", "k"}, {ListV(Range(n)), ListV(<<n + 2>>), StrV("v")}, MaxKeys) :
      \A i \in 1..Len(d) :
        CASE d[i].k = "s" -> d[i].v = ListV(<<n + 2>>)
          [] d[i].k = "k" -> d[i].v = StrV("v")
          [] OTHER -> d[i].v # ListV(<<n + 2>>) }

Multiple(type) == [NoField EXCEPT !.multiple = TRUE, !.type = type]

MultipleFields ==
  { Multiple("Resource"),
    Multiple("Missing"),
    [Multiple("Resource") EXCEPT !.validators = <<"tsm_string_only">>],
    [Multiple("Resource") EXCEPT !.replace_from = "s"],
    [Multiple("Resource") EXCEPT !.replace_from = "s",
                                 !.validators = <<"tsm_string_only">>],
    [Multiple("Resource") EXCEPT !.remove = TRUE],
    [Multiple("Resource") EXCEPT !.map_to = "m"] }

ResourceFields ==
  { <<[k |-> "x", f |-> [NoField EXCEPT !.validators = <<"tsm_to_lowercase">>]]>>,
    <<[k |-> "x", f |-> [NoField EXCEPT !.validators = <<"tsm_string_only">>]],
      [k |-> "y", f |-> [NoField EXCEPT !.value = StrV("L")]]>> }

NestedRequests ==
  { [heap |-> <<rq.top>> \o rq.elements \o <<Sibling>>,
     types |-> [t \in {"Dataset", "Resource"} |->
                  IF t = "Dataset" THEN <<[k |-> "r", f |-> rq.r]>> ELSE rq.resource]] :
      rq \in UNION { [top : NestedRecords(n), elements : [1..n -> Elements],
                      r : MultipleFields, resource : ResourceFields] :
                     n \in 0..MaxItems } }

(* fields of names, each with a descriptor of its own set in by_name *)
Schemas(by_name, n) ==
  { d \in Fields(DOMAIN by_name, UNION { by_name[x] : x \in DOMAIN by_name }, n) :
      \A i \in 1..Len(d) : d[i].f \in by_name[d[i].k] }

(* remove on x, beside a literal value on x and a field f mapped to x *)
RemoveRequests ==
  Flat(Dicts({"x", "f"}, {StrV("v")}, MaxKeys),
       Schemas([x |-> Plain({TRUE}, {NoneV}, {""}, {""}, {NoneV, StrV("L")}, {""}, {<<>>}),
                f |-> Plain({FALSE}, {NoneV}, {""}, {""}, {NoneV}, {"x"}, {<<>>})],
               2))

(* map_to from f to g, beside other rules on f and a declaration of g *)
MapToRequests ==
  Flat(Dicts({"f", "g"}, {StrV("v"), StrV("old")}, MaxKeys),
       Schemas([f |-> Plain({FALSE, TRUE}, {NoneV}, {""}, {""}, {NoneV, StrV("L")}, {"g"},
                            {<<>>, <<"tsm_to_uppercase">>}),
                g |-> {NoField}],
               2))

(* a literal value on x, beside default and replace_from *)
ValueRequests ==
  Flat(Dicts({"x", "a"}, Scalars, MaxKeys),
       Schemas([x |-> Plain({FALSE}, {NoneV, StrV("A")}, {""}, {"", "a"},
                            {IntV("0"), StrV(""), StrV("L")}, {""}, {<<>>})],
               1))

(* replace_from a on b, beside rules on a *)
ReplaceFromRequests ==
  Flat(Dicts({"a", "b"}, Scalars, MaxKeys),
       Schemas([b |-> Plain({FALSE}, {NoneV, StrV("A")}, {""}, {"a"}, {NoneV}, {""}, {<<>>}),
                a |-> { NoField,
                        [NoField EXCEPT !.validators = <<"tsm_to_uppercase">>],
                        [NoField EXCEPT !.value = StrV("L")],
                        [NoField EXCEPT !.remove = TRUE] }],
               2))

(* validator chains on x *)
Chains ==
  { <<"tsm_string_only">>, <<"tsm_to_lowercase">>, <<"tsm_to_uppercase">>,
    <<"tsm_to_lowercase", "tsm_string_only">>, <<"tsm_name_validator">>,
    <<"tsm_isodate">> }

ValidatorRequests ==
  Flat(Dicts({"x", "k"}, {StrV("V"), IntV("5"), StrV("2020-01-01")}, MaxKeys),
       Schemas([x |-> Plain({FALSE}, {NoneV}, {""}, {""}, {NoneV, IntV("5")}, {""}, Chains)],
               1))

(* a request whose schema has no Dataset type *)
NoSchemaRequests ==
  { [heap |-> <<r>>, types |-> [t \in {"Resource"} |-> <<>>]] :
      r \in Dicts({"x"}, {StrV("v")}, 1) }

Requests ==
  DefaultRequests \cup NestedRequests \cup RemoveRequests \cup MapToRequests
    \cup ValueRequests \cup ReplaceFromRequests \cup ValidatorRequests
    \cup NoSchemaRequests

Init == Start(Requests)

Spec == Init /\ [][Next]_vars

----------------------------------------------------------------------------
(* What the claims speak of.                                               *)

Done == pc = "done"

Failed == pc = "failed"

Input == heap0[CallerData]

Output == heap[result]

DatasetFields == SchemaOf(types, "Dataset")

Declared(field_name) == HasField(DatasetFields, field_name)

FieldOfVisit(v) == GetField(SchemaOf(types, v.type), v.field_name)

----------------------------------------------------------------------------
(* C1: a call to transmute never modifies the record the caller passed in  *)
(* as data: whether the call returned or failed part-way, the caller's     *)
(* record has exactly the keys and values it had before the call.          *)
C1_CallerRecordUnmodified ==
  (Done \/ Failed) => heap[CallerData] = heap0[CallerData]

OnlyDefault(f) == f.default # NoneV /\ f = [NoField EXCEPT !.default = f.default]

(* C2: when field x is absent from the record or holds a falsy value and   *)
(* the schema declares for x a default D and no other rule, the result has *)
(* x == D.                                                                 *)
C2_DefaultFill ==
  Done =>
    \A i \in 1..Len(DatasetFields) :
      LET x == DatasetFields[i].k
          f == DatasetFields[i].f
      IN  (OnlyDefault(f) /\ (~Has(Input, x) \/ ~Truthy(Get(Input, x))))
            => (Has(Output, x) /\ Get(Output, x) = f.default)

(* C3: after both passes the result contains no key whose field the schema *)
(* declares remove, whatever else that field or another field declares.    *)
C3_RemovedFieldAbsent ==
  Done =>
    \A i \in 1..Len(DatasetFields) :
      DatasetFields[i].f.remove => ~Has(Output, DatasetFields[i].k)

(* what the validator chain of the field returned in pass 1 *)
FinalValues(id, field_name) ==
  { log[n].out : n \in { m \in 1..Len(log) :
                           /\ log[m].obj = id
                           /\ log[m].field_name = field_name
                           /\ log[m].pass = 1
                           /\ ~log[m].raised } }

(* C4: when the record contains f and the schema declares for f a map_to g *)
(* other than f, the result has no key f and has g holding f's final       *)
(* value, the one f has after its value-sourcing and its validator chain.  *)
C4_MapToRenames ==
  Done =>
    \A i \in 1..Len(DatasetFields) :
      LET f == DatasetFields[i].k
          g == DatasetFields[i].f.map_to
      IN  (Has(Input, f) /\ g # "" /\ g # f)
            => /\ ~Has(Output, f)
               /\ Has(Output, g)
               /\ Get(Output, g) \in FinalValues(CallerData, f)

(* C5: a field that declares a literal value L, truthy or falsy, and is    *)
(* not declared remove hands L to its validator chain, whether it was      *)
(* present or absent in the input.                                         *)
C5_LiteralHandedToValidators ==
  \A n \in 1..Len(log) :
    LET f == GetField(SchemaOf(types, log[n].type), log[n].field_name)
    IN  (f.value # NoneV /\ ~f.remove) => log[n].value = f.value

(* C6: when the record contains a and the schema declares for b a          *)
(* replace_from a and no value, remove, map_to or validators, the result   *)
(* has b equal to the value a holds in the input record.                   *)
C6_ReplaceFromInputValue ==
  Done =>
    \A i \in 1..Len(DatasetFields) :
      LET b == DatasetFields[i].k
          f == DatasetFields[i].f
      IN  (/\ f.replace_from # ""
           /\ Has(Input, f.replace_from)
           /\ f.value = NoneV /\ ~f.remove /\ f.map_to = "" /\ f.validators = <<>>
           /\ ~f.multiple)
            => (Has(Output, b) /\ Get(Output, b) = Get(Input, f.replace_from))

(* C7: when a transmutator of a field's chain fails on the field's value,  *)
(* by rejecting it or by failing at runtime, the call fails with a         *)
(* ValidationError whose payload has the single key "{type}:{field_name}"  *)
(* mapped to a one-element list holding the message.                       *)
C7_TransmutatorFailureIsValidationError ==
  (Failed /\ err.origin = "transmutator") =>
    /\ err.exc = "ValidationError"
    /\ Len(err.payload) = 1
    /\ err.payload[1].k = err.type \o ":" \o err.field_name
    /\ Len(err.payload[1].v) = 1

(* What the schema of type T makes of one element: a field with validators *)
(* only holds what its chain returns for the input value, a field with a   *)
(* literal value only is created by pass 2.                                *)
Transformed(id, T) ==
  \A i \in 1..Len(SchemaOf(types, T)) :
    LET x == SchemaOf(types, T)[i].k
        d == SchemaOf(types, T)[i].f
    IN  /\ (d = [NoField EXCEPT !.validators = d.validators] /\ Has(heap0[id], x))
             => /\ Has(heap[id], x)
                /\ Get(heap[id], x) =
                     ValidatorLoop(Field(x, Get(heap0[id], x), T), d.validators, 1).field.value
        /\ (d = [NoField EXCEPT !.value = d.value] /\ Truthy(d.value) /\ ~Has(heap0[id], x))
             => (Has(heap[id], x) /\ Get(heap[id], x) = d.value)

Position(ids, id) == CHOOSE n \in 1..Len(ids) : ids[n] = id

Among(ids, id) == \E n \in 1..Len(ids) : ids[n] = id

(* the validator calls on the elements follow the order of the sequence *)
InOrder(ids) ==
  \A m, n \in 1..Len(log) :
    (m < n /\ Among(ids, log[m].obj) /\ Among(ids, log[n].obj))
      => Position(ids, log[m].obj) <= Position(ids, log[n].obj)

(* C8 as stated: for every multiple field of nested type T whose value is  *)
(* a sequence of records, T's schema is applied to every element, none of  *)
(* the parent field's validators is applied to the sequence, the call      *)
(* fails if an element is rejected and succeeds otherwise.                 *)
C8_MultipleFieldRecursed ==
  \A i \in 1..Len(DatasetFields) :
    LET r == DatasetFields[i].k
        f == DatasetFields[i].f
    IN  (/\ pc \in {"done", "failed"}
         /\ f.multiple
         /\ HasSchema(types, f.type)
         /\ Has(heap[CallerData], r)
         /\ Get(heap[CallerData], r).kind = "list")
          => /\ \A n \in 1..Len(log) :
                  ~(log[n].obj = CallerData /\ log[n].field_name = r)
             /\ (Failed /\ err.origin = "transmutator")
                  => \E n \in 1..Len(log) : log[n].raised /\ log[n].type = f.type
             /\ Done => \A n \in 1..Len(Get(heap[CallerData], r).items) :
                          Transformed(Get(heap[CallerData], r).items[n], f.type)

(* C8 as amended: for every field that is in the record when pass 1 visits *)
(* it, is not declared remove, is multiple with nested type T and whose    *)
(* value after value-sourcing is a sequence of records, pass 1 applies T's *)
(* schema (both passes) to every element, in sequence order, and applies   *)
(* none of the parent field's validators to the sequence; if an element is *)
(* rejected by a validator of T the whole call fails, and if no element is *)
(* rejected and no other step of the call fails, the call succeeds with    *)
(* every element transformed according to T.                               *)
C8_VisitedMultipleFieldRecursed ==
  \A i \in 1..Len(visits) :
    LET v == visits[i]
        f == FieldOfVisit(v)
    IN  (f.multiple /\ v.ok /\ v.value.kind = "list" /\ HasSchema(types, f.type))
          => /\ \A n \in 1..Len(log) :
                  ~(log[n].obj = v.obj /\ log[n].field_name = v.field_name
                      /\ log[n].pass = 1)
             /\ InOrder(v.value.items)
             /\ \A n \in 1..Len(log) :
                  (log[n].raised /\ Among(v.value.items, log[n].obj)) => Failed
             /\ Done => \A n \in 1..Len(v.value.items) :
                          Transformed(v.value.items[n], f.type)

(* A call that returned after pass 1 recursed into a sequence of two       *)
(* elements of a multiple field that declares validators of its own, and   *)
(* changed both elements.                                                  *)
C8_Witness ==
  \E i \in 1..Len(visits) :
    LET v == visits[i]
        f == FieldOfVisit(v)
    IN  /\ f.multiple /\ v.ok /\ v.value.kind = "list" /\ HasSchema(types, f.type)
        /\ f.validators # <<>>
        /\ Len(v.value.items) >= 2
        /\ Done
        /\ \A n \in 1..Len(v.value.items) :
             /\ Has(heap0[v.value.items[n]], "x")
             /\ heap[v.value.items[n]] # heap0[v.value.items[n]]

BothDeclared(v) ==
  LET f == FieldOfVisit(v)
  IN  f.default # NoneV /\ f.default_from # "" /\ ~Truthy(v.value0)

(* C9 as stated: in pass 1, for a field present with a falsy value whose   *)
(* schema declares both default and default_from, both steps run and the   *)
(* value copied from the default_from sibling overwrites the default.      *)
C9_BothStepsRun ==
  \A i \in 1..Len(visits) :
    (BothDeclared(visits[i]) /\ Has(heap0[visits[i].obj], FieldOfVisit(visits[i]).default_from))
      => \E m, n \in 1..Len(visits[i].ran) :
           /\ m < n
           /\ visits[i].ran[m].step = "default"
           /\ visits[i].ran[n].step = "default_from"

IsDefaulting(e) == e.step \in {"default", "default_from"}

(* C9 as amended: in pass 1, for a field present with a falsy value whose  *)
(* schema declares both default and default_from, the two steps are        *)
(* checked one after the other against the current value, so at most one   *)
(* of them runs: a truthy default fills the field and default_from is then *)
(* skipped, the value being no longer falsy; the default_from sibling is   *)
(* copied only when the declared default is itself falsy and so is not     *)
(* applied.                                                                *)
C9_DefaultSkipsDefaultFrom ==
  \A i \in 1..Len(visits) :
    LET v == visits[i]
        f == FieldOfVisit(v)
        ran == SelectSeq(v.ran, IsDefaulting)
    IN  BothDeclared(v) =>
          IF Truthy(f.default)
          THEN ran = <<[step |-> "default", value |-> f.default]>>
          ELSE \/ /\ Len(ran) = 1
                  /\ ran[1].step = "default_from"
                  /\ ~HasField(SchemaOf(types, v.type), f.default_from)
                       => ran[1].value = Get(heap0[v.obj], f.default_from)
               \/ /\ ran = <<>>
                  /\ i = Len(visits)
                  /\ Failed
                  /\ err.exc = "KeyError"
                  /\ err.field_name = v.field_name

(* A call that returned with the field holding its truthy default although *)
(* the default_from sibling was present with another truthy value.         *)
C9_Witness ==
  \E i \in 1..Len(visits) :
    LET v == visits[i]
        f == FieldOfVisit(v)
    IN  /\ BothDeclared(v)
        /\ Truthy(f.default)
        /\ Has(heap0[v.obj], f.default_from)
        /\ Truthy(Get(heap0[v.obj], f.default_from))
        /\ Get(heap0[v.obj], f.default_from) # f.default
        /\ Done
        /\ Get(Output, v.field_name) = f.default

SameValue(v) ==
  v.kind = "list" => \A n \in 1..Len(v.items) : heap[v.items[n]] = heap0[v.items[n]]

(* C10: a key of the record that the schema of the type applied does not   *)
(* declare and that is no declared field's map_to target is in the result  *)
(* of a successful call with exactly the value it had in the input.        *)
C10_UndeclaredKeysKept ==
  Done =>
    \A n \in 1..Len(Input) :
      LET key == Input[n].k
      IN  (/\ ~Declared(key)
           /\ \A i \in 1..Len(DatasetFields) : DatasetFields[i].f.map_to # key)
            => /\ Has(Output, key)
               /\ Get(Output, key) = Input[n].v
               /\ SameValue(Input[n].v)

====
